---- MODULE Spec2Model ----
(***************************************************************************)
(* Model of the .env loader of cross-org/env: loadEnvFile, parseEnvFile,   *)
(* processEscapes and expandValue of src/lib/filehandler.ts.               *)
(*                                                                         *)
(* A JavaScript string is a sequence of one-character strings, so that     *)
(* trim, split, startsWith, slice and the regular expressions of the       *)
(* source are computed character by character.                             *)
(***************************************************************************)
EXTENDS Integers, Sequences, FiniteSets, TLC

\* ------------------------------------------------------------ characters
DOLLAR == "$"
BSLASH == "\\"
EQUALS == "="
DQUOTE == "\""
SQUOTE == "'"
HASH == "#"
SPACE == " "
NEWLINE == "\n"
DIGITS == <<"0", "1", "2", "3", "4", "5", "6", "7", "8", "9">>

\* The empty JavaScript string.
EmptyStr == <<>>

\* ------------------------------------------------- String.prototype helpers
\* s.startsWith(c) and s.endsWith(c) for a one-character c.
StartsWith(s, c) == Len(s) > 0 /\ s[1] = c
EndsWith(s, c) == Len(s) > 0 /\ s[Len(s)] = c

\* s.slice(1, -1): from index 1 up to, not including, the last character.
Slice1Minus1(s) == IF Len(s) <= 2 THEN EmptyStr ELSE SubSeq(s, 2, Len(s) - 1)

\* s.trim(): the white space of the model's alphabet is the space character.
RECURSIVE TrimStart(_)
TrimStart(s) ==
    IF Len(s) > 0 /\ s[1] = SPACE THEN TrimStart(Tail(s)) ELSE s

RECURSIVE TrimEnd(_)
TrimEnd(s) ==
    IF Len(s) > 0 /\ s[Len(s)] = SPACE THEN TrimEnd(SubSeq(s, 1, Len(s) - 1)) ELSE s

Trim(s) == TrimEnd(TrimStart(s))

\* s.split(sep) for a one-character separator: always at least one part.
RECURSIVE SplitFrom(_, _, _, _)
SplitFrom(s, sep, i, cur) ==
    IF i > Len(s) THEN <<cur>>
    ELSE IF s[i] = sep THEN <<cur>> \o SplitFrom(s, sep, i + 1, EmptyStr)
    ELSE SplitFrom(s, sep, i + 1, Append(cur, s[i]))

Split(s, sep) == SplitFrom(s, sep, 1, EmptyStr)

\* parts.join(sep).
RECURSIVE Join(_, _)
Join(parts, sep) ==
    IF Len(parts) = 0 THEN EmptyStr
    ELSE IF Len(parts) = 1 THEN parts[1]
    ELSE parts[1] \o <<sep>> \o Join(Tail(parts), sep)

\* s.includes(sub) at position i (1-based): sub occurs in s starting at i.
OccursAt(s, sub, i) ==
    /\ i >= 1
    /\ i + Len(sub) - 1 <= Len(s)
    /\ \A j \in 1..Len(sub) : s[i + j - 1] = sub[j]

\* ------------------------------------------------------- regular expressions
\* processEscapes: value.replace(/\\\\(\$)/g, "$1").  The pattern is two
\* backslashes followed by a dollar sign; each match is replaced by its first
\* group, the dollar sign.  Matches are found left to right and do not overlap.
RECURSIVE ProcessEscapesFrom(_, _)
ProcessEscapesFrom(s, i) ==
    IF i > Len(s) THEN EmptyStr
    ELSE IF OccursAt(s, <<BSLASH, BSLASH, DOLLAR>>, i)
         THEN <<DOLLAR>> \o ProcessEscapesFrom(s, i + 3)
         ELSE <<s[i]>> \o ProcessEscapesFrom(s, i + 1)

processEscapes(value) == ProcessEscapesFrom(value, 1)

\* The key is pasted unescaped into the source of the regular expression
\* (?<!\\)\$${key}(?<!\\).  Of the characters of the model's alphabet a
\* dollar sign in the key is the end-of-input assertion and a backslash escapes
\* the character after it; every other character stands for itself.  A key
\* that ends in an unpaired backslash escapes the parenthesis of the second
\* lookbehind and leaves its closing parenthesis unmatched: new RegExp throws
\* a SyntaxError.
END_ANCHOR == "<end>"

RECURSIVE KeyAtoms(_)
KeyAtoms(key) ==
    IF Len(key) = 0 THEN <<>>
    ELSE IF key[1] = BSLASH
         THEN IF Len(key) = 1 THEN <<>>
              ELSE <<key[2]>> \o KeyAtoms(SubSeq(key, 3, Len(key)))
    ELSE IF key[1] = DOLLAR THEN <<END_ANCHOR>> \o KeyAtoms(Tail(key))
    ELSE <<key[1]>> \o KeyAtoms(Tail(key))

RECURSIVE RegexSyntaxError(_)
RegexSyntaxError(key) ==
    IF Len(key) = 0 THEN FALSE
    ELSE IF key[1] = BSLASH
         THEN IF Len(key) = 1 THEN TRUE
              ELSE RegexSyntaxError(SubSeq(key, 3, Len(key)))
    ELSE RegexSyntaxError(Tail(key))

\* The position after the atoms matched from position pos of value, 0 if they
\* do not match there.
RECURSIVE AtomsMatchEnd(_, _, _)
AtomsMatchEnd(value, pos, atoms) ==
    IF Len(atoms) = 0 THEN pos
    ELSE IF atoms[1] = END_ANCHOR
         THEN IF pos = Len(value) + 1 THEN AtomsMatchEnd(value, pos, Tail(atoms)) ELSE 0
    ELSE IF pos <= Len(value) /\ value[pos] = atoms[1]
         THEN AtomsMatchEnd(value, pos + 1, Tail(atoms))
    ELSE 0

\* A variant of RegexMatchEnd whose first lookbehind is written [^\\]: it asks
\* for a character, no backslash, before the dollar sign.
RegexMatchEndNeedsCharBefore(value, key, i) ==
    IF /\ 1 < i /\ i <= Len(value)
       /\ value[i] = DOLLAR
       /\ value[i - 1] # BSLASH
    THEN LET e == AtomsMatchEnd(value, i + 1, KeyAtoms(key))
         IN  IF e > 0 /\ value[e - 1] # BSLASH THEN e ELSE 0
    ELSE 0

\* The regular expression of key matched at position i of value: the position
\* after the match, 0 if there is none.  (?<!\\) before the dollar sign: the
\* character before it is no backslash; \$ a dollar sign; the key; (?<!\\)
\* after the key: the last character matched is no backslash.
RegexMatchEnd(value, key, i) ==
    IF /\ i <= Len(value)
       /\ value[i] = DOLLAR
       /\ (i = 1 \/ value[i - 1] # BSLASH)
    THEN LET e == AtomsMatchEnd(value, i + 1, KeyAtoms(key))
         IN  IF e > 0 /\ value[e - 1] # BSLASH THEN e ELSE 0
    ELSE 0

\* value.match(regex) is not null.
RegexMatches(value, key) ==
    \E i \in 1..Len(value) : RegexMatchEnd(value, key, i) > 0

\* The replacement string of String.prototype.replace is a template: $$ is a
\* dollar sign, $& the match and $' the text after it.  The expression has no
\* capture group, so $1..$99 and $< stand for themselves.  (The template for
\* the text before the match, a dollar sign and a grave accent, cannot occur:
\* the grave accent is no character of the model's alphabet.)
RECURSIVE GetSubstitution(_, _, _, _)
GetSubstitution(matched, before, after, template) ==
    IF Len(template) = 0 THEN EmptyStr
    ELSE IF template[1] = DOLLAR /\ Len(template) >= 2 /\ template[2] = DOLLAR
         THEN <<DOLLAR>>
              \o GetSubstitution(matched, before, after, SubSeq(template, 3, Len(template)))
    ELSE IF template[1] = DOLLAR /\ Len(template) >= 2 /\ template[2] = "&"
         THEN matched
              \o GetSubstitution(matched, before, after, SubSeq(template, 3, Len(template)))
    ELSE IF template[1] = DOLLAR /\ Len(template) >= 2 /\ template[2] = SQUOTE
         THEN after
              \o GetSubstitution(matched, before, after, SubSeq(template, 3, Len(template)))
    ELSE <<template[1]>> \o GetSubstitution(matched, before, after, Tail(template))

\* value.replace(regex, replacement) with the global flag: every match, left
\* to right, is replaced; the text between the matches is kept.
RECURSIVE RegexReplaceFrom(_, _, _, _)
RegexReplaceFrom(value, key, replacement, i) ==
    IF i > Len(value) THEN EmptyStr
    ELSE LET e == RegexMatchEnd(value, key, i)
         IN  IF e > 0
             THEN GetSubstitution(SubSeq(value, i, e - 1),
                                  SubSeq(value, 1, i - 1),
                                  SubSeq(value, e, Len(value)),
                                  replacement)
                  \o RegexReplaceFrom(value, key, replacement, e)
             ELSE <<value[i]>> \o RegexReplaceFrom(value, key, replacement, i + 1)

RegexReplace(value, key, replacement) == RegexReplaceFrom(value, key, replacement, 1)

\* ------------------------------------------------------------------ envVars
\* envVars: Record<string, string> is the sequence of its entries in the
\* order of Object.keys: the keys that are array indices in ascending numeric
\* order first, then the other keys in the order they were first assigned.
Keys(env) == [i \in 1..Len(env) |-> env[i].k]
HasKey(env, key) == \E i \in 1..Len(env) : env[i].k = key
IndexOfKey(env, key) == CHOOSE i \in 1..Len(env) : env[i].k = key
Get(env, key) == env[IndexOfKey(env, key)].v

DigitValue(c) == (CHOOSE i \in 1..Len(DIGITS) : DIGITS[i] = c) - 1
IsDigit(c) == \E i \in 1..Len(DIGITS) : DIGITS[i] = c

RECURSIVE ToNumber(_)
ToNumber(s) ==
    IF Len(s) = 0 THEN 0
    ELSE 10 * ToNumber(SubSeq(s, 1, Len(s) - 1)) + DigitValue(s[Len(s)])

\* A canonical numeric string (below 2^32 - 1: the model's keys are short).
IsArrayIndex(key) ==
    /\ Len(key) > 0
    /\ \A i \in 1..Len(key) : IsDigit(key[i])
    /\ (Len(key) > 1 => key[1] # "0")

\* Where a new key is inserted in the order of Object.keys.
InsertPosition(env, key) ==
    IF IsArrayIndex(key)
    THEN 1 + Cardinality({i \in 1..Len(env) :
                 IsArrayIndex(env[i].k) /\ ToNumber(env[i].k) < ToNumber(key)})
    ELSE Len(env) + 1

\* A variant of SetProperty that keeps the value a key already has
\* (envVars[key] ??= value).
SetPropertyKeepsFirst(env, key, value) ==
    IF HasKey(env, key)
    THEN env
    ELSE LET p == InsertPosition(env, key)
         IN  SubSeq(env, 1, p - 1) \o <<[k |-> key, v |-> value]>> \o SubSeq(env, p, Len(env))

\* A variant of SetProperty that also resolves the entries stored earlier as
\* a reference to the key: their value becomes the value of the key.
SetPropertyRetroactive(env, key, value) ==
    LET stored == IF HasKey(env, key)
                  THEN [env EXCEPT ![IndexOfKey(env, key)].v = value]
                  ELSE LET p == InsertPosition(env, key)
                       IN  SubSeq(env, 1, p - 1) \o <<[k |-> key, v |-> value]>>
                           \o SubSeq(env, p, Len(env))
    IN  [i \in 1..Len(stored) |->
            IF stored[i].v = <<DOLLAR>> \o key
            THEN [k |-> stored[i].k, v |-> value]
            ELSE stored[i]]

\* envVars[key] = value.
SetProperty(env, key, value) ==
    IF HasKey(env, key)
    THEN [env EXCEPT ![IndexOfKey(env, key)].v = value]
    ELSE LET p == InsertPosition(env, key)
         IN  SubSeq(env, 1, p - 1) \o <<[k |-> key, v |-> value]>> \o SubSeq(env, p, Len(env))

\* ---------------------------------------------------------------- expandValue
\* What a call ends with: "none" (it returns), "circular" (the Error of the
\* circular reference) or "syntax" (the SyntaxError of new RegExp).
NoError == "none"
CircularError == "circular"
SyntaxError == "syntax"

\* expandValue(value, envVars, visited): the value returned, the visited set as
\* the call leaves it (the set is one object shared by the whole recursion) and
\* how the call ends.  ExpandKeys is the for loop over Object.keys(envVars),
\* from the i-th key on, and the two statements after it.
RECURSIVE expandValue(_, _, _)
RECURSIVE ExpandKeys(_, _, _, _)

\* A variant of ExpandKeys without the recursion: at the first key that
\* matches it returns value.replace(regex, envVars[key]), the stored value of
\* the key put in as it is.
ExpandKeysOnce(value, env, visited, i) ==
    LET hits == {j \in i..Len(env) :
                    ~RegexSyntaxError(env[j].k) /\ RegexMatches(value, env[j].k)}
    IN  IF hits = {}
        THEN [value |-> value, visited |-> visited \ {value}, error |-> NoError]
        ELSE LET j == CHOOSE h \in hits : \A g \in hits : h <= g
             IN  [value |-> RegexReplace(value, env[j].k, env[j].v),
                  visited |-> visited \ {value}, error |-> NoError]

\* The for loop of expandValue from the i-th key on and the two statements
\* after it.
ExpandKeys(value, env, visited, i) ==
    IF i > Len(env)
    THEN [value |-> value, visited |-> visited \ {value}, error |-> NoError]
    ELSE LET key == env[i].k
         IN  IF RegexSyntaxError(key)
             THEN [value |-> value, visited |-> visited, error |-> SyntaxError]
             ELSE IF RegexMatches(value, key)
             THEN LET inner == expandValue(env[i].v, env, visited)
                  IN  IF inner.error # NoError
                      THEN inner
                      ELSE ExpandKeys(RegexReplace(value, key, inner.value),
                                      env, inner.visited, i + 1)
             ELSE ExpandKeys(value, env, visited, i + 1)

expandValue(value, env, visited) ==
    IF value \in visited
    THEN [value |-> value, visited |-> visited, error |-> CircularError]
    ELSE ExpandKeys(value, env, visited \cup {value}, 1)

\* The depth the recursion of expandValue(value, envVars, visited) reaches:
\* the greatest number of calls in progress at once, counting the calls that
\* get past the test of the visited set (a call that finds its value in the
\* set throws at once and counts 0).  DepthOfKeys is the loop from the i-th
\* key on.
Max(a, b) == IF a >= b THEN a ELSE b

RECURSIVE ExpandDepth(_, _, _)
RECURSIVE DepthOfKeys(_, _, _, _)
DepthOfKeys(value, env, visited, i) ==
    IF i > Len(env) THEN 0
    ELSE LET key == env[i].k
         IN  IF RegexSyntaxError(key) THEN 0
             ELSE IF RegexMatches(value, key)
             THEN LET inner == expandValue(env[i].v, env, visited)
                      depth == ExpandDepth(env[i].v, env, visited)
                  IN  IF inner.error # NoError
                      THEN depth
                      ELSE Max(depth,
                               DepthOfKeys(RegexReplace(value, key, inner.value),
                                           env, inner.visited, i + 1))
             ELSE DepthOfKeys(value, env, visited, i + 1)

ExpandDepth(value, env, visited) ==
    IF value \in visited THEN 0
    ELSE 1 + DepthOfKeys(value, env, visited \cup {value}, 1)

\* --------------------------------------------------------------- parseEnvFile
\* The two options as parseEnvFile reads them: x ? x : undefined.
\* An optional boolean of EnvOptions is true, false or left out.
YES == "true"
NO == "false"
UNDEFINED == "undefined"
Truthy(option) == option = YES

\* A variant of LineSkipped that looks for the number sign at the start of the
\* line as it is in the file, not of the trimmed line.
LineSkippedUntrimmed(line) ==
    Len(Trim(line)) = 0 \/ StartsWith(line, HASH)

\* The callback of forEach on one line, statement by statement.
\* The line is skipped: it is blank or a comment.
LineSkipped(line) ==
    LET trimmedLine == Trim(line)
    IN  Len(trimmedLine) = 0 \/ StartsWith(trimmedLine, HASH)

\* const [key, ...valueParts] = trimmedLine.split("="), and key.trim().
LineKey(line) == Trim(Split(Trim(line), EQUALS)[1])

\* A variant of LineRawValue that keeps the first part after the key only, as
\* const [key, value] = trimmedLine.split("=") does.
LineRawValueFirstPart(line) ==
    LET parts == Split(Trim(line), EQUALS)
    IN  IF Len(parts) >= 2 THEN Trim(parts[2]) ELSE EmptyStr

\* valueParts.join("=").trim().
LineRawValue(line) == Trim(Join(Tail(Split(Trim(line), EQUALS)), EQUALS))

\* The if statement on allowQuotes.
StripQuotes(value, allowQuotes) ==
    IF /\ Truthy(allowQuotes)
       /\ \/ (StartsWith(value, DQUOTE) /\ EndsWith(value, DQUOTE))
          \/ (StartsWith(value, SQUOTE) /\ EndsWith(value, SQUOTE))
    THEN Slice1Minus1(value)
    ELSE value

LineValue(line, allowQuotes) == StripQuotes(LineRawValue(line), allowQuotes)

\* The whole callback: whether the line is skipped, the key and the value it
\* assigns, and how it ends.
ParseLineOf(line, env, allowQuotes, enableExpansion) ==
    LET value == LineValue(line, allowQuotes)
        expanded == expandValue(processEscapes(value), env, {})
    IN  IF LineSkipped(line)
        THEN [skip |-> TRUE, key |-> EmptyStr, value |-> EmptyStr, error |-> NoError]
        ELSE IF Truthy(enableExpansion)
        THEN [skip |-> FALSE, key |-> LineKey(line), value |-> expanded.value,
              error |-> expanded.error]
        ELSE [skip |-> FALSE, key |-> LineKey(line), value |-> value, error |-> NoError]

\* ---------------------------------------------------------------- loadEnvFile
VARIABLES
    pc,             \* where loadEnvFile is: "start", "parsing", "returned", "threw"
    currentRuntime, \* the argument currentRuntime
    options,        \* the argument options
    family,         \* the class of file contents this run draws the file from
    readCause,      \* the message of the error readFile rejected with, or "none"
    fileContent,    \* the local fileContent
    lines,          \* content.split("\n"), the array forEach walks
    idx,            \* the index (from 1) of the next line handed to the callback
    envVars,        \* the local envVars of parseEnvFile, the mapping returned
    before,         \* envVars as it was when the last line was handed over
    thrown,         \* the error loadEnvFile rejects with
    warnings,       \* what console.warn was called with
    env,            \* the environment of the process: Deno.env, Bun.env, process.env
    throwErrors,    \* the flag throwErrors of mod.ts
    logWarnings,    \* the flag logWarnings of mod.ts
    loadDotEnv,     \* whether the options given to setupEnv ask for the file
    result          \* how the last call of validateAndGetEnv ended

\* The state of mod.ts, which loadEnvFile and parseEnvFile do not touch.
modVars == <<env, throwErrors, logWarnings, loadDotEnv, result>>

vars == <<pc, currentRuntime, options, family, readCause, fileContent, lines, idx,
          envVars, before, thrown, warnings, env, throwErrors, logWarnings, loadDotEnv,
          result>>

SupportedRuntimes == {"deno", "bun", "node"}
Runtimes == SupportedRuntimes \cup {"unsupported"}

MsgUnsupportedError == "Unsupported runtime environment."
MsgUnsupportedWarning == "Unsupported runtime"
MsgCircular == "Circular reference detected in variable expansion"
MsgSyntax == "Invalid regular expression"
\* Messages readFile rejects with.
ReadErrorMessages == {"ENOENT: no such file or directory", "EACCES: permission denied"}

NoThrow == [kind |-> "none", message |-> ""]
UnsupportedEnvironmentError == [kind |-> "UnsupportedEnvironmentError", message |-> MsgUnsupportedError]
FileReadError(message) == [kind |-> "FileReadError", message |-> message]

\* A variant of CatchThrows that throws the caught error again as it is.
CatchRethrows(err, opts) ==
    IF Truthy(opts.throwErrors) THEN err ELSE NoThrow

\* The catch block of loadEnvFile for a caught error err: what it throws and
\* what it warns.
CatchThrows(err, opts) ==
    IF Truthy(opts.throwErrors) THEN FileReadError(err.message) ELSE NoThrow

CatchWarns(err, opts) ==
    IF ~Truthy(opts.throwErrors) /\ Truthy(opts.logWarnings) THEN <<err.message>> ELSE <<>>

\* The default branch of the switch, inside the try block: what it throws
\* there and what it warns.
DefaultBranchThrows(opts) ==
    IF Truthy(opts.throwErrors) THEN UnsupportedEnvironmentError ELSE NoThrow

DefaultBranchWarns(opts) ==
    IF ~Truthy(opts.throwErrors) /\ Truthy(opts.logWarnings)
    THEN <<MsgUnsupportedWarning>> ELSE <<>>

\* A variant of ParseErrorThrown with the call of parseEnvFile inside the try
\* block: the catch block decides.
ParseErrorCaught(error, opts) ==
    IF Truthy(opts.throwErrors) THEN FileReadError(MsgCircular) ELSE NoThrow

\* An error thrown by parseEnvFile: the call is the operand of the return
\* statement, after the try statement, so loadEnvFile rejects with it as it is.
ParseErrorThrown(error, opts) ==
    IF error = CircularError THEN [kind |-> "Error", message |-> MsgCircular]
    ELSE [kind |-> "SyntaxError", message |-> MsgSyntax]

\* parseEnvFile up to forEach: an empty content has no lines to walk.
LinesOf(content) == IF Len(content) > 0 THEN Split(content, NEWLINE) ELSE <<>>

\* ------------------------------------------------------------ file contents
MaxLines == 3

Entry(key, value) == key \o <<EQUALS>> \o value
Entries(keySet, valueSet) == {Entry(k, v) : k \in keySet, v \in valueSet}

\* The lines the files of a family are made of.
FamilyLines(f) ==
    CASE f = "refs" ->
           Entries({<<"A">>, <<"B">>, <<"C">>},
                   {<<"x">>, <<"$", "A">>, <<"$", "B">>, <<"$", "C">>})
      [] f = "prefix" ->
           Entries({<<"A">>, <<"A", "B">>, <<"C">>},
                   {<<"x">>, <<"y">>, <<"$", "A">>, <<"$", "A", "B">>})
      [] f = "escape" ->
           Entries({<<"A">>, <<"B">>},
                   {<<"x">>, <<"$", "A">>, <<"\\", "$", "A">>, <<"\\", "\\", "$", "A">>})
      [] f = "concat" ->
           Entries({<<"A">>, <<"B">>, <<"C">>},
                   {<<"1">>, <<"A">>, <<"$", "$", "B">>})
      [] f = "quotes" ->
           Entries({<<"A">>},
                   {<<"\"">>, <<"'">>, <<"\"", "x", "'">>, <<"\"", "x", "\"">>,
                    <<"'", "x", "'">>, <<"\"", "\"">>, <<"x", "\"">>})
           \cup {<<" ", "B", " ", "=", " ", "\"", " ", "x", "\"", " ">>}
      [] f = "cycle" ->
           Entries({<<"A">>, <<"B">>}, {<<"x">>, <<"$", "A">>})
      [] f = "defaults" ->
           {Entry(<<"A">>, <<"x">>), Entry(<<"B">>, <<"\"", "x", "\"">>),
            Entry(<<"B">>, <<"$", "A">>), Entry(<<"B">>, <<"'", "$", "A", "'">>)}
      [] f = "regex" ->
           {Entry(<<"A", "\\">>, <<"1">>), Entry(<<"A">>, <<"1">>),
            Entry(<<"B">>, <<"$", "A">>), Entry(<<"B">>, <<"x">>)}
      [] f = "visited" ->
           \* the first piece is a pair of lines
           {Entry(<<"X">>, <<"$", "Y">>) \o <<NEWLINE>> \o Entry(<<"W">>, <<"$", "Y">>),
            Entry(<<"Y">>, <<"1">>),
            Entry(<<"Z">>, <<"$", "X", "$", "W">>),
            Entry(<<"Z">>, <<"$", "X">>)}
      [] f = "apply" ->
           {Entry(<<"A">>, <<"1">>), Entry(<<"B">>, <<"$", "A">>)}
      [] f = "digits" ->
           Entries({<<"1">>, <<"1", "2">>, <<"C">>},
                   {<<"x">>, <<"y">>, <<"$", "1", "2">>})
      [] f = "layout" ->
           {<<>>, <<" ">>, <<"#", "c">>, <<" ", "#", "A", "=", "1">>,
            <<"A">>, <<"B", "=">>, <<"=", "v">>,
            <<"A", "=", "1">>, <<"A", "=", "2">>, <<"B", "=", "b", "=", "c">>,
            <<" ", "A", " ", "=", " ", "b", " ", "=", " ", "c", " ">>}

\* The files of a family: up to MaxLines of its lines joined by newlines.
FamilyContents(f) ==
    UNION {{Join(ls, NEWLINE) : ls \in [1..n -> FamilyLines(f)]} : n \in 0..MaxLines}

\* ------------------------------------------------------------------ actions
\* The switch finds a supported runtime and readFile resolves with content.
ReadResolves ==
    /\ pc = "start"
    /\ currentRuntime \in SupportedRuntimes
    /\ \E content \in FamilyContents(family) :
          /\ fileContent' = content
          /\ lines' = LinesOf(content)
    /\ pc' = "parsing"
    /\ UNCHANGED <<currentRuntime, options, family, readCause, idx, envVars, before,
                   thrown, warnings>>
    /\ UNCHANGED modVars

\* The switch finds a supported runtime and readFile rejects: the catch block.
ReadRejects ==
    /\ pc = "start"
    /\ currentRuntime \in SupportedRuntimes
    /\ \E message \in ReadErrorMessages :
          LET err == [kind |-> "Error", message |-> message]
          IN  /\ readCause' = message
              /\ thrown' = CatchThrows(err, options)
              /\ warnings' = warnings \o CatchWarns(err, options)
    /\ pc' = IF thrown' # NoThrow THEN "threw" ELSE "parsing"
    /\ lines' = LinesOf(fileContent)
    /\ UNCHANGED <<currentRuntime, options, family, fileContent, idx, envVars, before>>
    /\ UNCHANGED modVars

\* The default branch of the switch: an unsupported runtime.  What the branch
\* throws is thrown inside the try block, so the catch block catches it.
UnsupportedRuntime ==
    /\ pc = "start"
    /\ currentRuntime \notin SupportedRuntimes
    /\ LET inTry == DefaultBranchThrows(options)
       IN  /\ thrown' = IF inTry # NoThrow THEN CatchThrows(inTry, options) ELSE NoThrow
           /\ warnings' = warnings \o DefaultBranchWarns(options)
                          \o (IF inTry # NoThrow THEN CatchWarns(inTry, options) ELSE <<>>)
    /\ pc' = IF thrown' # NoThrow THEN "threw" ELSE "parsing"
    /\ lines' = LinesOf(fileContent)
    /\ UNCHANGED <<currentRuntime, options, family, readCause, fileContent, idx, envVars,
                   before>>
    /\ UNCHANGED modVars

\* forEach hands the next line to the callback.
ParseLine ==
    /\ pc = "parsing"
    /\ idx <= Len(lines)
    /\ LET r == ParseLineOf(lines[idx], envVars, options.dotEnv.allowQuotes,
                            options.dotEnv.enableExpansion)
       IN  /\ envVars' = IF r.skip \/ r.error # NoError THEN envVars
                         ELSE SetProperty(envVars, r.key, r.value)
           /\ thrown' = IF r.error # NoError THEN ParseErrorThrown(r.error, options)
                        ELSE thrown
           /\ pc' = IF thrown' # NoThrow THEN "threw" ELSE pc
    /\ before' = envVars
    /\ idx' = idx + 1
    /\ UNCHANGED <<currentRuntime, options, family, readCause, fileContent, lines,
                   warnings>>
    /\ UNCHANGED modVars

\* forEach is through: parseEnvFile returns envVars and loadEnvFile resolves.
ReturnEnvVars ==
    /\ pc = "parsing"
    /\ idx > Len(lines)
    /\ pc' = "returned"
    /\ UNCHANGED <<currentRuntime, options, family, readCause, fileContent, lines, idx,
                   envVars, before, thrown, warnings>>
    /\ UNCHANGED modVars

Next == ReadResolves \/ ReadRejects \/ UnsupportedRuntime \/ ParseLine \/ ReturnEnvVars

\* --------------------------------------------------------------------- mod.ts
\* What a read of the environment gives: a string or undefined.
Undefined == [defined |-> FALSE, value |-> EmptyStr]
Some(value) == [defined |-> TRUE, value |-> value]

\* option ?? default.
Nullish(option, default) == IF option = UNDEFINED THEN default ELSE option

\* The variables the process starts with: one whose name a file may define
\* and one no file of the model defines.
InitialEnv == (<<"A">> :> <<"0">>) @@ (<<"P">> :> <<"p">>)

\* Deno.env.get(key), Bun.env[key], process.env[key].
EnvGet(e, key) == IF key \in DOMAIN e THEN Some(e[key]) ELSE Undefined

\* Deno.env.set(key, value), Bun.env[key] = value, process.env[key] = value.
EnvSet(e, key, value) ==
    [k \in (DOMAIN e) \cup {key} |-> IF k = key THEN value ELSE e[k]]

\* The default branch of the switch of getEnv, setEnv and hasEnv: what it
\* throws and what it warns.
UnsupportedThrows ==
    IF Truthy(throwErrors) THEN UnsupportedEnvironmentError ELSE NoThrow
UnsupportedWarns ==
    IF ~Truthy(throwErrors) /\ Truthy(logWarnings) THEN <<MsgUnsupportedWarning>> ELSE <<>>

\* getEnv(key), where it returns.
getEnv(key) ==
    IF currentRuntime \in SupportedRuntimes THEN EnvGet(env, key) ELSE Undefined

\* A variant of hasEnv that tests the value for truth (!!getEnv(key)).
hasEnvTruthy(key) ==
    getEnv(key).defined /\ Len(getEnv(key).value) > 0

\* hasEnv(key), where it returns.
hasEnv(key) ==
    CASE currentRuntime = "deno" -> EnvGet(env, key) # Undefined
      [] currentRuntime = "bun" -> key \in DOMAIN env
      [] currentRuntime = "node" -> EnvGet(env, key) # Undefined
      [] OTHER -> FALSE

\* A ValidatorFunction: one that accepts every string, one that accepts none
\* and one that accepts the strings that are not empty.
Validators == {"always", "never", "notEmpty"}
Validate(validator, value) ==
    CASE validator = "always" -> TRUE
      [] validator = "never" -> FALSE
      [] validator = "notEmpty" -> Len(value) > 0

MsgInvalid == "Environment variable is invalid."
ValidationError == [kind |-> "ValidationError", message |-> MsgInvalid]

\* The names and values the calls of the model are made with.
CallKeys == {<<"A">>, <<"K">>}
CallValues == {EmptyStr, <<"v">>}
MaxWarnings == 2

NoResult == [op |-> "none", thrown |-> NoThrow, returned |-> Undefined]

\* A call of mod.ts is made while no other code runs: not in the middle of
\* the synchronous parseEnvFile.
CallerRuns == pc # "parsing" /\ Len(warnings) < MaxWarnings

\* setupEnv(options) up to its await, and setupEnv() without options.
setupEnv(given) ==
    /\ pc = "idle"
    /\ IF given
       THEN /\ throwErrors' = Nullish(options.throwErrors, NO)
            /\ logWarnings' = Nullish(options.logWarnings, YES)
            /\ options' = [options EXCEPT !.throwErrors = throwErrors',
                                          !.logWarnings = logWarnings']
            /\ pc' = IF Truthy(loadDotEnv) THEN "start" ELSE "done"
       ELSE /\ pc' = "done"
            /\ UNCHANGED <<throwErrors, logWarnings, options>>
    /\ UNCHANGED <<currentRuntime, family, readCause, fileContent, lines, idx, envVars,
                   before, thrown, warnings, env, loadDotEnv, result>>

\* Object.entries(envVars).forEach(set), from the i-th entry on.
RECURSIVE SetEntries(_, _, _)
SetEntries(e, entries, i) ==
    IF i > Len(entries) THEN e
    ELSE SetEntries(EnvSet(e, entries[i].k, entries[i].v), entries, i + 1)

\* A variant of SetEntries that leaves the variables the process already has
\* as they are.
CopyKeepsExisting(e, entries) ==
    SetEntries(e, SelectSeq(entries, LAMBDA entry : entry.k \notin DOMAIN e), 1)

\* The switch of setupEnv after the await: the entries of the mapping are
\* written to the environment of a supported runtime.
CopyEntries(e, entries) == SetEntries(e, entries, 1)

\* setupEnv after loadEnvFile has resolved.
CopyEnvVars ==
    /\ pc = "returned"
    /\ env' = IF currentRuntime \in SupportedRuntimes THEN CopyEntries(env, envVars) ELSE env
    /\ pc' = "done"
    /\ UNCHANGED <<currentRuntime, options, family, readCause, fileContent, lines, idx,
                   envVars, before, thrown, warnings, throwErrors, logWarnings,
                   loadDotEnv, result>>

\* setEnv(key, value).
setEnv(key, value) ==
    /\ CallerRuns
    /\ IF currentRuntime \in SupportedRuntimes
       THEN /\ env' = EnvSet(env, key, value)
            /\ result' = [op |-> "setEnv", thrown |-> NoThrow, returned |-> Undefined]
            /\ UNCHANGED warnings
       ELSE /\ result' = [op |-> "setEnv", thrown |-> UnsupportedThrows,
                          returned |-> Undefined]
            /\ warnings' = warnings \o UnsupportedWarns
            /\ UNCHANGED env
    /\ UNCHANGED <<pc, currentRuntime, options, family, readCause, fileContent, lines, idx,
                   envVars, before, thrown, throwErrors, logWarnings, loadDotEnv>>

\* validateAndGetEnv(key, validator): getEnv(key) || undefined, the validator
\* on a value that is truthy, and the flags.
validateAndGetEnv(key, validator) ==
    /\ CallerRuns
    /\ LET supported == currentRuntime \in SupportedRuntimes
           got == getEnv(key)
           value == IF got.defined /\ Len(got.value) > 0 THEN got ELSE Undefined
           invalid == value.defined /\ ~Validate(validator, value.value)
       IN  IF ~supported /\ UnsupportedThrows # NoThrow
           THEN /\ result' = [op |-> "validateAndGetEnv", thrown |-> UnsupportedThrows,
                              returned |-> Undefined]
                /\ UNCHANGED warnings
           ELSE /\ result' =
                      [op |-> "validateAndGetEnv",
                       thrown |-> IF invalid /\ Truthy(throwErrors)
                                  THEN ValidationError ELSE NoThrow,
                       returned |-> IF invalid THEN Undefined ELSE value]
                /\ warnings' =
                      warnings
                      \o (IF supported THEN <<>> ELSE UnsupportedWarns)
                      \o (IF invalid /\ ~Truthy(throwErrors) /\ Truthy(logWarnings)
                          THEN <<MsgInvalid>> ELSE <<>>)
    /\ UNCHANGED <<pc, currentRuntime, options, family, readCause, fileContent, lines, idx,
                   envVars, before, thrown, env, throwErrors, logWarnings, loadDotEnv>>

\* mod.ts with the loader it calls.
NextMod ==
    \/ \E given \in BOOLEAN : setupEnv(given)
    \/ Next
    \/ CopyEnvVars
    \/ \E key \in CallKeys, value \in CallValues : setEnv(key, value)
    \/ \E key \in CallKeys, validator \in Validators : validateAndGetEnv(key, validator)

\* ------------------------------------------------------------ specifications
\* The options a caller leaves at the defaults of mod.ts, with the two parser
\* switches as given.
OptionsOf(t, w, q, e) ==
    [throwErrors |-> t, logWarnings |-> w,
     dotEnv |-> [allowQuotes |-> q, enableExpansion |-> e]]

InitWith(families, runtimes, optionSet) ==
    /\ pc = "start"
    /\ family \in families
    /\ currentRuntime \in runtimes
    /\ options \in optionSet
    /\ readCause = "none"
    /\ fileContent = EmptyStr
    /\ lines = <<>>
    /\ idx = 1
    /\ envVars = <<>>
    /\ before = <<>>
    /\ thrown = NoThrow
    /\ warnings = <<>>
    /\ env = InitialEnv
    /\ throwErrors = NO
    /\ logWarnings = YES
    /\ loadDotEnv = YES
    /\ result = NoResult

Flags == {YES, NO, UNDEFINED}

\* mod.ts leaves throwErrors at false and logWarnings at true.
ExpansionOptions == {OptionsOf(NO, YES, YES, YES)}
ParserOptions == {OptionsOf(NO, YES, q, e) : q \in {YES, NO}, e \in {YES, NO}}
LoaderOptions == {OptionsOf(t, w, YES, YES) : t \in Flags, w \in Flags}

\* Files of references between keys, parsed with expansion enabled.
Init == InitWith({"refs", "prefix"}, {"node", "unsupported"}, ExpansionOptions)
Spec == Init /\ [][Next]_vars

\* Files of escapes, dollar signs and quotes under every setting of the two
\* parser switches.
InitEdge == InitWith({"escape", "concat", "quotes"}, {"node", "unsupported"}, ParserOptions)
SpecEdge == InitEdge /\ [][Next]_vars

\* Every runtime and every error policy, on files some of which hold a
\* circular reference.
InitLoad == InitWith({"cycle"}, Runtimes, LoaderOptions)
SpecLoad == InitLoad /\ [][Next]_vars

\* Files of blank lines, comments, lines without key or without equals sign
\* and repeated keys, under every setting of the two parser switches.
InitLines == InitWith({"layout"}, {"node", "unsupported"}, ParserOptions)
SpecLines == InitLines /\ [][Next]_vars

\* The two parser switches set to true, set to false and left out.
DefaultedOptions == {OptionsOf(NO, YES, q, e) : q \in Flags, e \in Flags}
InitDefaults == InitWith({"defaults"}, {"node", "unsupported"}, DefaultedOptions)
SpecDefaults == InitDefaults /\ [][Next]_vars

\* Files with a key that ends in a backslash, and files in which two keys
\* are stored with the same reference before the key it names is defined.
InitEngine == InitWith({"regex", "visited"}, {"node", "unsupported"}, ParserOptions)
SpecEngine == InitEngine /\ [][Next]_vars

\* Files with two keys of which one is the start of the other, keys of
\* letters and keys of digits, parsed with expansion enabled.
InitOrder == InitWith({"prefix", "digits"}, {"node", "unsupported"}, ExpansionOptions)
SpecOrder == InitOrder /\ [][Next]_vars

\* mod.ts from the moment the module is loaded: setupEnv has not been called,
\* the flags have their initial values; the options setupEnv will be given
\* ask for the file or not.
ModOptions == {OptionsOf(t, w, YES, YES) : t \in Flags, w \in {NO, UNDEFINED}}
InitMod ==
    /\ pc = "idle"
    /\ family = "apply"
    /\ currentRuntime \in Runtimes
    /\ options \in ModOptions
    /\ loadDotEnv \in {YES, NO}
    /\ readCause = "none"
    /\ fileContent = EmptyStr
    /\ lines = <<>>
    /\ idx = 1
    /\ envVars = <<>>
    /\ before = <<>>
    /\ thrown = NoThrow
    /\ warnings = <<>>
    /\ env = InitialEnv
    /\ throwErrors = NO
    /\ logWarnings = YES
    /\ result = NoResult
SpecMod == InitMod /\ [][NextMod]_vars

\* ---------------------------------------------------------------- properties
\* What the properties below read off a state.
Expanding == Truthy(options.dotEnv.enableExpansion)
Quoting == Truthy(options.dotEnv.allowQuotes)

\* A line has been handed to the callback; LastLine is the last one.
LineHanded == pc # "start" /\ idx > 1
LastLine == lines[idx - 1]

\* The callback stored a value for the last line.
LineStored == LineHanded /\ thrown = NoThrow /\ ~LineSkipped(LastLine)
StoredValue == Get(envVars, LineKey(LastLine))

\* The value of the last line as expandValue received it.
HandedValue == processEscapes(LineValue(LastLine, options.dotEnv.allowQuotes))

\* forEach has walked every line, or was left by an error.
ParseEnded == pc \in {"returned", "threw"} \/ (pc = "parsing" /\ idx > Len(lines))

Contains(s, c) == \E i \in 1..Len(s) : s[i] = c

\* value is one reference: a dollar sign and a name without dollar sign,
\* backslash or white space.
IsReference(value) ==
    /\ Len(value) >= 2
    /\ value[1] = DOLLAR
    /\ \A i \in 2..Len(value) : value[i] \notin {DOLLAR, BSLASH, SPACE}
ReferenceTo(name) == <<DOLLAR>> \o name

IsPrefix(p, s) == Len(p) <= Len(s) /\ SubSeq(s, 1, Len(p)) = p
ProperPrefixKeyIn(map, name) ==
    \E i \in 1..Len(map) : map[i].k # name /\ IsPrefix(map[i].k, name)

\* $name occurs in value with no backslash before the dollar sign.
UnescapedReferenceIn(value, name) ==
    \E p \in 1..Len(value) :
        /\ value[p] = DOLLAR
        /\ (p = 1 \/ value[p - 1] # BSLASH)
        /\ OccursAt(value, name, p + 1)

CircularThrown == [kind |-> "Error", message |-> MsgCircular]

\* C1: with expansion enabled, content in which two variables reference each
\* other (a first line K1=$K2, a second line K2=$K1) makes the parse fail
\* with the circular-reference error; no mapping is returned for it.
MutualReference ==
    /\ Len(lines) = 2
    /\ ~LineSkipped(lines[1]) /\ ~LineSkipped(lines[2])
    /\ LineKey(lines[1]) # LineKey(lines[2])
    /\ LineValue(lines[1], options.dotEnv.allowQuotes) = ReferenceTo(LineKey(lines[2]))
    /\ LineValue(lines[2], options.dotEnv.allowQuotes) = ReferenceTo(LineKey(lines[1]))

C1_MutualReferenceFails ==
    (Expanding /\ MutualReference /\ ParseEnded)
        => (pc = "threw" /\ thrown = CircularThrown)

\* C2: with expansion enabled, for the lines A=x and B=\$A (one backslash)
\* the value stored for B is the dollar sign and the letter A: the reference
\* is not expanded and the backslash is removed.
EscapedReferenceFile ==
    lines = <<Entry(<<"A">>, <<"x">>), Entry(<<"B">>, <<"\\", "$", "A">>)>>

C2_EscapedReferenceIsLiteral ==
    (Expanding /\ EscapedReferenceFile /\ pc = "returned")
        => (HasKey(envVars, <<"B">>) /\ Get(envVars, <<"B">>) = <<"$", "A">>)

\* C3: with expansion enabled, for every chain of lines K1=v, K2=$K1, ...,
\* Kn=$K(n-1) of distinct keys whose v holds no dollar sign, the parse returns
\* and every key K1..Kn is stored with the value v.
ChainOfReferences ==
    /\ Len(lines) >= 2
    /\ \A i \in 1..Len(lines) : ~LineSkipped(lines[i])
    /\ \A i, j \in 1..Len(lines) : i # j => LineKey(lines[i]) # LineKey(lines[j])
    /\ ~Contains(LineValue(lines[1], options.dotEnv.allowQuotes), DOLLAR)
    /\ \A i \in 2..Len(lines) :
          LineValue(lines[i], options.dotEnv.allowQuotes)
              = ReferenceTo(LineKey(lines[i - 1]))

C3_ChainResolvesToFirstValue ==
    (Expanding /\ ChainOfReferences /\ ParseEnded)
        => /\ thrown = NoThrow
           /\ \A i \in 1..Len(lines) :
                 /\ HasKey(envVars, LineKey(lines[i]))
                 /\ Get(envVars, LineKey(lines[i]))
                        = LineValue(lines[1], options.dotEnv.allowQuotes)

\* C4: for a runtime that is not deno, bun or node, loadEnvFile fails with an
\* UnsupportedEnvironmentError (no other kind of error) when throwErrors is
\* set, and otherwise does not fail and returns the empty mapping.
C4_UnsupportedRuntimeError ==
    (currentRuntime \notin SupportedRuntimes /\ pc # "start")
        => IF Truthy(options.throwErrors)
           THEN pc = "threw" /\ thrown.kind = "UnsupportedEnvironmentError"
           ELSE pc # "threw" /\ thrown = NoThrow /\ lines = <<>> /\ envVars = <<>>

\* C5: when readFile fails on a supported runtime, loadEnvFile fails with a
\* FileReadError that carries the message of the cause if throwErrors is set,
\* and otherwise goes on to return the empty mapping, whatever logWarnings is.
ReadFailed == readCause # "none"

C5_ReadFailurePolicy ==
    ReadFailed
        => /\ currentRuntime \in SupportedRuntimes
           /\ IF Truthy(options.throwErrors)
              THEN pc = "threw" /\ thrown = FileReadError(readCause)
              ELSE /\ pc \in {"parsing", "returned"}
                   /\ thrown = NoThrow
                   /\ lines = <<>>
                   /\ envVars = <<>>

C5_Witness ==
    /\ ReadFailed
    /\ options.throwErrors = NO
    /\ options.logWarnings = NO
    /\ pc = "returned"
    /\ envVars = <<>>

\* C6: a circular-reference error raised while the content is parsed leaves
\* loadEnvFile as that error under every throwErrors and logWarnings: it is
\* not turned into a warning or a FileReadError, and no mapping is returned.
CircularRaised ==
    /\ LineHanded
    /\ ParseLineOf(LastLine, before, options.dotEnv.allowQuotes,
                   options.dotEnv.enableExpansion).error = CircularError

C6_CircularErrorPropagates ==
    CircularRaised
        => /\ pc = "threw"
           /\ thrown = CircularThrown
           /\ \A i \in 1..Len(warnings) : warnings[i] # MsgCircular

C6_Witness ==
    /\ CircularRaised
    /\ options.throwErrors # YES
    /\ options.logWarnings = YES
    /\ pc = "threw"
    /\ thrown = CircularThrown

\* C7: with quoting enabled, one leading and one trailing quote character are
\* stripped from the trimmed value exactly when it has at least two characters
\* and starts and ends with the same quote character; any other value (with
\* mismatched quotes, or a single quote character) is stored unchanged.
EnclosedInQuotes(value) ==
    /\ Len(value) >= 2
    /\ \/ (value[1] = DQUOTE /\ value[Len(value)] = DQUOTE)
       \/ (value[1] = SQUOTE /\ value[Len(value)] = SQUOTE)

C7_QuotesStrippedIffEnclosed ==
    (Quoting /\ LineStored /\ ~Contains(LineRawValue(LastLine), DOLLAR))
        => StoredValue = IF EnclosedInQuotes(LineRawValue(LastLine))
                         THEN SubSeq(LineRawValue(LastLine), 2,
                                     Len(LineRawValue(LastLine)) - 1)
                         ELSE LineRawValue(LastLine)

\* C8 as stated: with expansion enabled, a reference $K to a key that is not
\* yet in the map (defined only on a later line) is stored as the empty
\* string, and a reference to a key of an earlier line as that key's value.
DefinedLater(name) ==
    \E j \in idx..Len(lines) : ~LineSkipped(lines[j]) /\ LineKey(lines[j]) = name

C9_UnknownNameIsVerbatim ==
    (/\ Expanding
     /\ LineHanded
     /\ ~LineSkipped(LastLine)
     /\ IsReference(HandedValue)
     /\ ~HasKey(before, Tail(HandedValue)))
        => (thrown = NoThrow /\ StoredValue = HandedValue)

\* C10: with expansion enabled, right after a line is parsed the value stored
\* for its key holds no $NAME, without a backslash before it, for any NAME
\* that was a key of the map when the line was expanded.
C10_NoKnownReferenceLeft ==
    (Expanding /\ LineStored)
        => \A i \in 1..Len(before) :
              ~UnescapedReferenceIn(StoredValue, before[i].k)

\* The text of s before its first c, and the text after it; the whole of s
\* and the empty string if c does not occur in s.
FirstIndexOf(s, c) ==
    IF Contains(s, c)
    THEN CHOOSE i \in 1..Len(s) : s[i] = c /\ \A j \in 1..(i - 1) : s[j] # c
    ELSE Len(s) + 1
TextBeforeFirst(s, c) == SubSeq(s, 1, FirstIndexOf(s, c) - 1)
TextAfterFirst(s, c) == SubSeq(s, FirstIndexOf(s, c) + 1, Len(s))

\* The first non-blank character of the line is the number sign, or the line
\* has no non-blank character.
BlankOrComment(line) ==
    \/ \A i \in 1..Len(line) : line[i] = SPACE
    \/ \E i \in 1..Len(line) :
          line[i] = HASH /\ \A j \in 1..(i - 1) : line[j] = SPACE

\* The lines handed to the callback so far that are neither blank nor comment.
EntryLinesHanded == {j \in 1..(idx - 1) : j <= Len(lines) /\ ~BlankOrComment(lines[j])}

\* C11: after parsing any content, every key of the mapping is a non-empty
\* string, the trimmed text before the first equals sign of a line that is
\* neither comment nor blank; a line such as =value adds no entry.
C11_KeysAreNonEmpty ==
    (pc # "start")
        => \A i \in 1..Len(envVars) :
              /\ Len(envVars[i].k) > 0
              /\ \E j \in EntryLinesHanded :
                    envVars[i].k = Trim(TextBeforeFirst(lines[j], EQUALS))

\* A value the parser stores as it is written: no dollar sign and no quote.
PlainText(value) ==
    \A i \in 1..Len(value) : value[i] \notin {DOLLAR, DQUOTE, SQUOTE, BSLASH}

\* The lines of the file that define key, and the last of them.
DefiningLines(key) ==
    {j \in 1..Len(lines) :
        ~BlankOrComment(lines[j]) /\ Trim(TextBeforeFirst(lines[j], EQUALS)) = key}
LastDefiningLine(key) ==
    CHOOSE j \in DefiningLines(key) : \A h \in DefiningLines(key) : h <= j

\* C12: when a key is defined on several lines, the returned mapping holds the
\* key once, with the value of its last defining line (A=1 then A=2 gives 2).
C12_LastDefinitionWins ==
    (pc = "returned")
        => \A j \in 1..Len(lines) :
              ~BlankOrComment(lines[j])
                  => LET key == Trim(TextBeforeFirst(lines[j], EQUALS))
                         written == Trim(TextAfterFirst(lines[LastDefiningLine(key)], EQUALS))
                     IN  /\ Cardinality({i \in 1..Len(envVars) : envVars[i].k = key}) = 1
                         /\ PlainText(written) => Get(envVars, key) = written

C12_Witness ==
    /\ pc = "returned"
    /\ lines = <<Entry(<<"A">>, <<"1">>), Entry(<<"A">>, <<"2">>)>>
    /\ envVars = <<[k |-> <<"A">>, v |-> <<"2">>]>>

\* C13: a blank line or a line whose first non-blank character is the number
\* sign adds, changes and removes no entry; content that is empty or made of
\* such lines only gives the empty mapping.
C13_BlankAndCommentLinesStoreNothing ==
    /\ (LineHanded /\ BlankOrComment(LastLine)) => (envVars = before /\ thrown = NoThrow)
    /\ (pc = "returned" /\ \A j \in 1..Len(lines) : BlankOrComment(lines[j]))
           => envVars = <<>>

\* A comment line with white space before the number sign has been handed
\* over after an entry was stored.
C13_Witness ==
    /\ LineHanded
    /\ LastLine = <<" ", "#", "A", "=", "1">>
    /\ envVars = before
    /\ Len(envVars) > 0

\* C14: an entry line is split at its first equals sign only: the key is the
\* trimmed text before it, the value the whole trimmed text after it with any
\* further equals sign (A=b=c stores b=c); a line without equals sign and a
\* line KEY= store the key with the empty string.  (The lines are those of
\* plain text that the parser stores; on those the value is stored as split.)
C14_SplitAtFirstEquals ==
    (/\ LineHanded /\ ~BlankOrComment(LastLine) /\ PlainText(LastLine)
     /\ thrown = NoThrow)
        => /\ ~LineSkipped(LastLine)
           /\ HasKey(envVars, Trim(TextBeforeFirst(LastLine, EQUALS)))
           /\ Get(envVars, Trim(TextBeforeFirst(LastLine, EQUALS)))
                  = Trim(TextAfterFirst(LastLine, EQUALS))

C14_Witness ==
    /\ LineHanded
    /\ LastLine = <<" ", "A", " ", "=", " ", "b", " ", "=", " ", "c", " ">>
    /\ HasKey(before, <<"A">>)
    /\ Get(envVars, <<"A">>) = <<"b", " ", "=", " ", "c">>
    /\ HasKey(envVars, <<"B">>)
    /\ Get(envVars, <<"B">>) = EmptyStr

\* The value an option left out stands for according to EnvOptions.
DocumentedDefault(option) == IF option = UNDEFINED THEN YES ELSE option

\* C15: allowQuotes and enableExpansion default to true: with an option left
\* out, a line is parsed exactly as it is with the option set to true.
C15_UnsetOptionsDefaultToTrue ==
    (LineHanded /\ ~LineSkipped(LastLine))
        => LET asDocumented ==
                   ParseLineOf(LastLine, before,
                               DocumentedDefault(options.dotEnv.allowQuotes),
                               DocumentedDefault(options.dotEnv.enableExpansion))
           IN  /\ (thrown = NoThrow) <=> (asDocumented.error = NoError)
               /\ thrown = NoThrow => StoredValue = asDocumented.value

\* C16: the line parser never raises: for every content and every setting of
\* the options the parse returns a mapping, unless the expansion finds a
\* circular reference.
C16_ParserRaisesOnlyCircular ==
    (LineHanded /\ readCause = "none" /\ currentRuntime \in SupportedRuntimes)
        => (thrown = NoThrow \/ thrown = CircularThrown)

\* C20: a call of expandValue that returns has removed from the visited set
\* the string it added, so the set is on return what it was on entry; hence
\* X=$Y, W=$Y, Y=1, Z=$X$W, where Z names two keys stored with the same
\* string, is expanded without a circular-reference error.
TwoKeysSameValueFile ==
    lines = <<Entry(<<"X">>, <<"$", "Y">>), Entry(<<"W">>, <<"$", "Y">>),
              Entry(<<"Y">>, <<"1">>), Entry(<<"Z">>, <<"$", "X", "$", "W">>)>>

C20_VisitedSetRestored ==
    /\ (Expanding /\ LineStored)
           => expandValue(HandedValue, before, {}).visited = {}
    /\ (Expanding /\ TwoKeysSameValueFile /\ ParseEnded)
           => (thrown = NoThrow /\ Get(envVars, <<"Z">>) = <<"1", "1">>)

\* The runtime is deno, bun or node, and the names the properties look at.
Supported == currentRuntime \in SupportedRuntimes
EnvNames == CallKeys \cup (DOMAIN InitialEnv) \cup {<<"B">>}

\* C17: on a supported runtime getEnv(k) returns the value of the most recent
\* setEnv(k, v), and undefined for a k never set (a name the process did not
\* start with reads undefined, and a read changes only by a setEnv of that name
\* or by setupEnv applying the file); hasEnv(k) is true exactly when getEnv(k)
\* is not undefined; setEnv(k, v) changes no other name.
C17_SetThenGet ==
    /\ \A k \in EnvNames \ DOMAIN InitialEnv : Supported => getEnv(k) = Undefined
    /\ [](Supported => \A k \in EnvNames : hasEnv(k) <=> (getEnv(k) # Undefined))
    /\ [][Supported =>
            \A k \in EnvNames :
               /\ \A v \in CallValues :
                     setEnv(k, v)
                         => /\ getEnv(k)' = Some(v)
                            /\ \A j \in EnvNames \ {k} : getEnv(j)' = getEnv(j)
               /\ (getEnv(k)' # getEnv(k))
                      => (CopyEnvVars \/ \E v \in CallValues : setEnv(k, v))]_vars

\* setEnv has replaced a variable the process started with and has set a new
\* one to the empty string.
C17_Witness ==
    /\ Supported
    /\ result.op = "setEnv"
    /\ getEnv(<<"A">>) = Some(<<"v">>)
    /\ getEnv(<<"K">>) = Some(EmptyStr)
    /\ hasEnv(<<"K">>)
    /\ getEnv(<<"P">>) = Some(<<"p">>)

\* C18: for a variable that is set, validateAndGetEnv returns the value if it
\* passes the validator; if it fails the validator the call returns undefined
\* while the flag throwErrors is false and throws ValidationError once
\* setupEnv has set the flag, whether or not its promise has been awaited.
C18_ValidationPolicy ==
    [][\A k \in CallKeys, f \in Validators :
          (validateAndGetEnv(k, f) /\ Supported /\ getEnv(k) # Undefined)
              => IF Validate(f, getEnv(k).value)
                 THEN result'.thrown = NoThrow /\ result'.returned = getEnv(k)
                 ELSE IF Truthy(throwErrors)
                      THEN result'.thrown = ValidationError
                      ELSE result'.thrown = NoThrow /\ result'.returned = Undefined]_vars

\* C19: when setupEnv has loaded the file on a supported runtime, every pair
\* of the parsed mapping is read by getEnv (a value of the file replaces a
\* variable of the same name) and every variable whose name is not in the
\* file is as it was; reading and parsing the file write nothing to the
\* environment.
C19_FileAppliedToEnv ==
    [][/\ (CopyEnvVars /\ Supported)
             => /\ \A i \in 1..Len(envVars) : getEnv(envVars[i].k)' = Some(envVars[i].v)
                /\ \A k \in DOMAIN env : ~HasKey(envVars, k) => env'[k] = env[k]
                /\ DOMAIN env' = (DOMAIN env) \cup {envVars[i].k : i \in 1..Len(envVars)}
       /\ (ReadResolves \/ ReadRejects \/ UnsupportedRuntime \/ ParseLine \/ ReturnEnvVars)
             => env' = env]_vars

\* setupEnv is through: the file A=1, B=$A has replaced the variable A the
\* process started with, added B and left P.
C19_Witness ==
    /\ pc = "done"
    /\ Supported
    /\ Truthy(loadDotEnv)
    /\ lines = <<Entry(<<"A">>, <<"1">>), Entry(<<"B">>, <<"$", "A">>)>>
    /\ getEnv(<<"A">>) = Some(<<"1">>)
    /\ getEnv(<<"B">>) = Some(<<"1">>)
    /\ getEnv(<<"P">>) = Some(<<"p">>)

\* C21: with expansion enabled the parse of every content comes to an end,
\* with a mapping or with the circular-reference error, and the recursion
\* of expandValue is never deeper than the number of keys in the map plus
\* one.
C21_ExpansionTerminates ==
    (/\ Expanding
     /\ LineHanded
     /\ ~LineSkipped(LastLine)
     /\ readCause = "none"
     /\ currentRuntime \in SupportedRuntimes)
        => /\ thrown \in {NoThrow, CircularThrown}
           /\ ExpandDepth(HandedValue, before, {}) <= Len(before) + 1

\* C22: a line changes at most the entry of its own key: every other key has
\* the same value before and after the line, also the keys whose values were
\* read and expanded on the way, and no other key is added or removed.
C22_OtherKeysUntouched ==
    LineHanded
        => LET own == ~LineSkipped(LastLine) /\ thrown = NoThrow
           IN  /\ \A i \in 1..Len(before) :
                     (own /\ before[i].k = LineKey(LastLine))
                     \/ (/\ HasKey(envVars, before[i].k)
                         /\ Get(envVars, before[i].k) = before[i].v)
               /\ \A i \in 1..Len(envVars) :
                     \/ HasKey(before, envVars[i].k)
                     \/ (own /\ envVars[i].k = LineKey(LastLine))

\* The third line C=$A has read A, stored as a forward reference to B, and
\* through it B: C holds B's value, A and B are as they were.
C22_Witness ==
    /\ LineHanded
    /\ lines = <<Entry(<<"A">>, <<"$", "B">>), Entry(<<"B">>, <<"x">>),
                 Entry(<<"C">>, <<"$", "A">>)>>
    /\ idx = 4
    /\ envVars = <<[k |-> <<"A">>, v |-> <<"$", "B">>], [k |-> <<"B">>, v |-> <<"x">>],
                   [k |-> <<"C">>, v |-> <<"x">>]>>

\* The line that first defines key, among the lines handed over before the
\* last one; 0 if there is none.
FirstDefinedAt(key) ==
    LET at == {j \in 1..(idx - 2) : ~LineSkipped(lines[j]) /\ LineKey(lines[j]) = key}
    IN  IF at = {} THEN 0 ELSE CHOOSE j \in at : \A h \in at : j <= h

\* The last line is a reference to the key long, and short and long are keys
\* of the map with values of plain text, short the start of long.
PrefixCase(short, long) ==
    /\ Expanding
    /\ LineHanded
    /\ ~LineSkipped(LastLine)
    /\ HandedValue = ReferenceTo(long)
    /\ short # long
    /\ IsPrefix(short, long)
    /\ HasKey(before, short) /\ HasKey(before, long)
    /\ PlainText(Get(before, short)) /\ PlainText(Get(before, long))
    /\ \A i \in 1..Len(before) :
          IsPrefix(before[i].k, long) => before[i].k \in {short, long}

\* What the claim says is stored: with short tried first, the value of short
\* and the rest of the name long; with long tried first, the value of long.
ShortFirstValue(short, long) ==
    Get(before, short) \o SubSeq(long, Len(short) + 1, Len(long))

PrefixKeyPairs ==
    {<<before[i].k, before[j].k>> : i \in 1..Len(before), j \in 1..Len(before)}

\* C23: the keys are tried in the order they were inserted in the
\* map and $KEY matches as a plain prefix: with FOO defined before FOOBAR a
\* later value $FOOBAR is stored as FOO's value followed by BAR, with FOOBAR
\* defined before FOO as FOOBAR's value.
C23_InsertionOrderDecides ==
    \A pair \in PrefixKeyPairs :
        PrefixCase(pair[1], pair[2])
            => /\ thrown = NoThrow
               /\ StoredValue =
                      IF FirstDefinedAt(pair[1]) < FirstDefinedAt(pair[2])
                      THEN ShortFirstValue(pair[1], pair[2])
                      ELSE Get(before, pair[2])

\* The order of Object.keys, told from the file: the keys that are canonical
\* array indices (digits, no leading zero) come first, in ascending numeric
\* order; the other keys follow in the order they were inserted.
TriedBefore(k1, k2) ==
    IF IsArrayIndex(k1) /\ IsArrayIndex(k2) THEN ToNumber(k1) < ToNumber(k2)
    ELSE IF IsArrayIndex(k1) THEN TRUE
    ELSE IF IsArrayIndex(k2) THEN FALSE
    ELSE FirstDefinedAt(k1) < FirstDefinedAt(k2)

\* The same statement with the order of Object.keys in place of the order of
\* insertion: it is what the code does, keys of digits included (of the keys
\* 1 and 12 the key 1 is tried first wherever it is defined).
KeysOrderDecides ==
    \A pair \in PrefixKeyPairs :
        PrefixCase(pair[1], pair[2])
            => /\ thrown = NoThrow
               /\ StoredValue =
                      IF TriedBefore(pair[1], pair[2])
                      THEN ShortFirstValue(pair[1], pair[2])
                      ELSE Get(before, pair[2])

MatchedByItself(name) ==
    HasKey(before, name) /\ ~ProperPrefixKeyIn(before, name)

====
